---- MODULE Spec2Model ----
(***************************************************************************)
(* Model of src/mcp_linkedin/client.py: fourteen tool functions, each of   *)
(* which builds a LinkedIn client from the environment, makes one or more  *)
(* delegated calls on it and formats the response as text.                 *)
(*                                                                         *)
(* Text is a sequence of fragments (the literal pieces of an f-string and  *)
(* the rendered values between them); string concatenation is \o.  A       *)
(* Python dict is a function whose DOMAIN is its set of keys.  An optional *)
(* value is a sequence: <<>> is None, <<v>> is the value v.                *)
(***************************************************************************)
EXTENDS Naturals, Sequences, FiniteSets

\* Longest list a delegated listing call returns when one caller runs alone.
MaxItems == 2
\* Longest list a delegated listing call returns when callers run concurrently.
MaxItemsConcurrent == 1

\* The tool-invocation host's callers.  Spec runs one, SpecConcurrent both.
Sequential == {"inv1"}
Concurrent == {"inv1", "inv2"}
Invocations == Concurrent

VARIABLES
  env,      \* TRUE iff LINKEDIN_EMAIL and LINKEDIN_PASSWORD are set
  heap,     \* number of Linkedin objects constructed so far
  log,      \* records emitted through the module's logger, in order
  pc,       \* per invocation: idle, start, body, loop, done, raised
  op,       \* per invocation: the tool function called
  args,     \* per invocation: its arguments
  client,   \* per invocation: the local variable client (0: unbound)
  built,    \* per invocation: number of Linkedin objects it constructed
  calls,    \* per invocation: the delegated calls it made, with outcomes
  jobs,     \* search_jobs local: the job summaries returned
  idx,      \* search_jobs local: position of the for loop in jobs
  acc,      \* search_jobs local: job_results
  result,   \* per invocation: the returned text (when pc = "done")
  exc       \* per invocation: the exception that left the function

vars == <<env, heap, log, pc, op, args, client, built, calls, jobs, idx, acc, result, exc>>

NoHandle == 0
None == <<>>
Some(v) == <<v>>

----------------------------------------------------------------------------
\* Python helpers

\* dict.get(k, default)
Get(d, k, default) == IF k \in DOMAIN d THEN d[k] ELSE default

EmptyDict == [k \in {} |-> ""]

\* str() of a string inside an f-string
Str(s) == <<s>>

Digit(n) == <<"0", "1", "2", "3", "4", "5", "6", "7", "8", "9">>[n + 1]

\* str() of a non-negative integer: its decimal digits
RECURSIVE IntStr(_)
IntStr(n) == IF n < 10 THEN <<Digit(n)>> ELSE IntStr(n \div 10) \o <<Digit(n % 10)>>

\* Index of the first ":" of s, 0 when there is none
RECURSIVE FirstColon(_, _)
FirstColon(s, k) ==
  IF k > Len(s) THEN 0
  ELSE IF s[k] = ":" THEN k
  ELSE FirstColon(s, k + 1)

\* s.split(":") on a string given as its sequence of characters
RECURSIVE Split(_)
Split(s) ==
  LET k == FirstColon(s, 1) IN
  IF k = 0 THEN <<s>>
  ELSE <<SubSeq(s, 1, k - 1)>> \o Split(SubSeq(s, k + 1, Len(s)))

Last(xs) == xs[Len(xs)]

\* job["entityUrn"].split(":")[-1]
JobIdFirstSegment(urn) == Head(Split(urn))
JobId(urn) == Last(Split(urn))

\* f"Error: {e}"
ErrorText(e) == <<"Error: ", e>>

----------------------------------------------------------------------------
\* The tool functions and their arguments

GuardedOps == {"get_feed_posts", "create_share_update", "get_profile", "get_company",
               "get_connections", "join_group", "get_group_posts", "send_invitation",
               "get_pending_invitations", "send_message", "get_conversations",
               "manage_company_page", "get_post_analytics"}
Ops == GuardedOps \cup {"search_jobs"}

PublicIds == {None, Some(""), Some("bob")}
Actions == {"update", "post", "get_analytics", "bogus"}
ValidActions == {"update", "post", "get_analytics"}
DataValues == {None, Some(EmptyDict), Some([k \in {"content"} |-> "hi"])}

ArgsOf(o) ==
  CASE o = "get_feed_posts" -> {[limit |-> 10, offset |-> 0]}
    [] o = "search_jobs" -> {[keywords |-> "data engineer", limit |-> 3, offset |-> 0, location |-> ""]}
    [] o = "create_share_update" -> {[comment |-> "hello", visibility_code |-> "anyone"]}
    [] o = "get_profile" -> {[public_id |-> p] : p \in PublicIds}
    [] o = "get_company" -> {[company_id |-> "c1"]}
    [] o = "get_connections" -> {[limit |-> 10]}
    [] o = "join_group" -> {[group_id |-> "g1"]}
    [] o = "get_group_posts" -> {[group_id |-> "g1", limit |-> 10]}
    [] o = "send_invitation" -> {[public_id |-> "bob", message |-> None]}
    [] o = "get_pending_invitations" -> {[limit |-> 10]}
    [] o = "send_message" -> {[recipients |-> <<"bob">>, message |-> "hi"]}
    [] o = "get_conversations" -> {[limit |-> 10]}
    [] o = "manage_company_page" ->
         {[company_id |-> "c1", action |-> a, data |-> d] : a \in Actions, d \in DataValues}
    [] o = "get_post_analytics" -> {[post_id |-> "post123"]}

----------------------------------------------------------------------------
\* Outcomes of a delegated call: it returns val, or raises an exception whose
\* str() is err.

Returns(v) == [ok |-> TRUE, val |-> v, err |-> ""]
Raises(v0, e) == [ok |-> FALSE, val |-> v0, err |-> e]

\* All lists of at most n elements of S
RECURSIVE Lists(_, _)
Lists(S, n) ==
  IF n = 0 THEN {<<>>}
  ELSE LET shorter == Lists(S, n - 1) IN
       shorter \cup {Append(l, x) : l \in {m \in shorter : Len(m) = n - 1}, x \in S}

Init ==
  /\ env \in BOOLEAN
  /\ heap = 0
  /\ log = <<>>
  /\ pc = [i \in Invocations |-> "idle"]
  /\ op = [i \in Invocations |-> "none"]
  /\ args = [i \in Invocations |-> EmptyDict]
  /\ client = [i \in Invocations |-> NoHandle]
  /\ built = [i \in Invocations |-> 0]
  /\ calls = [i \in Invocations |-> <<>>]
  /\ jobs = [i \in Invocations |-> <<>>]
  /\ idx = [i \in Invocations |-> 0]
  /\ acc = [i \in Invocations |-> <<>>]
  /\ result = [i \in Invocations |-> <<>>]
  /\ exc = [i \in Invocations |-> ""]

----------------------------------------------------------------------------
\* Leaving a tool function.  The local client is unbound when the frame goes.

\* return text
Return(i, text) ==
  /\ pc' = [pc EXCEPT ![i] = "done"]
  /\ result' = [result EXCEPT ![i] = text]
  /\ client' = [client EXCEPT ![i] = NoHandle]
  /\ exc' = exc

\* an exception e no handler catches leaves the function
Propagate(i, e) ==
  /\ pc' = [pc EXCEPT ![i] = "raised"]
  /\ exc' = [exc EXCEPT ![i] = e]
  /\ client' = [client EXCEPT ![i] = NoHandle]
  /\ result' = result

\* except Exception as e: logger.error(f"{prefix}{e}"); return f"Error: {e}"
ExceptReraises(i, prefix, e) ==
  /\ log' = Append(log, [inv |-> i, msg |-> <<prefix, e>>])
  /\ Propagate(i, e)
Except(i, prefix, e) ==
  /\ log' = Append(log, [inv |-> i, msg |-> <<prefix, e>>])
  /\ Return(i, ErrorText(e))

\* client.method(args) ended with outcome out
Call(i, method, a, out) ==
  calls' = [calls EXCEPT ![i] = Append(@, [h |-> client[i], method |-> method, args |-> a, out |-> out])]

----------------------------------------------------------------------------
\* The host calls tool function o with arguments a.
Invoke(i) ==
  /\ pc[i] = "idle"
  /\ \E o \in Ops : \E a \in ArgsOf(o) :
       /\ op' = [op EXCEPT ![i] = o]
       /\ args' = [args EXCEPT ![i] = a]
  /\ pc' = [pc EXCEPT ![i] = "start"]
  /\ UNCHANGED <<env, heap, log, client, built, calls, jobs, idx, acc, result, exc>>

\* Linkedin(...) makes a new object on every call.
CachedHandle(n) == 1
FreshHandle(n) == n + 1

\* client = get_client(), the first statement of every tool function and
\* outside every try block.  The constructor authenticates: it raises when the
\* credentials are absent and may raise when they are present.
GetClient(i) ==
  /\ pc[i] = "start"
  /\ \E authenticated \in {b \in BOOLEAN : env \/ ~b} :
       IF authenticated
       THEN /\ heap' = heap + 1
            /\ client' = [client EXCEPT ![i] = FreshHandle(heap)]
            /\ built' = [built EXCEPT ![i] = @ + 1]
            /\ pc' = [pc EXCEPT ![i] = "body"]
            /\ UNCHANGED <<result, exc>>
       ELSE /\ Propagate(i, "AuthError")
            /\ UNCHANGED <<heap, built>>
  /\ UNCHANGED <<env, log, op, args, calls, jobs, idx, acc>>

----------------------------------------------------------------------------
\* Formatting a response: the text, or the exception the formatting raises.

Fmt(text) == [ok |-> TRUE, text |-> text, err |-> ""]
FmtRaises(e) == [ok |-> FALSE, text |-> <<>>, err |-> e]

\* try: r = client.method(a); return <text of r>
\* except Exception as e: logger.error(...); return f"Error: {e}"
\* f is the formatting of out.val; it is not evaluated when the call raises.
Guarded(i, prefix, method, a, out, f) ==
  /\ Call(i, method, a, out)
  /\ IF ~out.ok THEN Except(i, prefix, out.err)
     ELSE IF ~f.ok THEN Except(i, prefix, f.err)
     ELSE Return(i, f.text) /\ log' = log

\* The locals of search_jobs and the module state no guarded function touches
Untouched == UNCHANGED <<env, heap, op, args, built, jobs, idx, acc>>

\* A delegated call whose result is only embedded in the success text
StatusOutcomes == {Returns("ok"), Raises("", "ApiError")}

----------------------------------------------------------------------------
\* get_feed_posts

FeedItems == {[k \in {"author_name", "content"} |-> IF k = "author_name" THEN "Ann" ELSE "hello"],
              [k \in {"author_name", "content"} |-> IF k = "author_name" THEN "Bob" ELSE "news"],
              [k \in {"author_name"} |-> "Cy"]}
FeedOutcomes(n) == {Raises(<<>>, "ApiError")} \cup {Returns(l) : l \in Lists(FeedItems, n)}

\* for urn in post_urns: posts += f"Post by {urn["author_name"]}: {urn["content"]}\n"
RECURSIVE FeedText(_, _)
FeedText(posts, post_urns) ==
  IF post_urns = <<>> THEN Fmt(posts)
  ELSE LET urn == Head(post_urns) IN
       IF "author_name" \notin DOMAIN urn THEN FmtRaises("'author_name'")
       ELSE IF "content" \notin DOMAIN urn THEN FmtRaises("'content'")
       ELSE FeedText(posts \o <<"Post by ">> \o Str(urn["author_name"]) \o <<": ">>
                       \o Str(urn["content"]) \o <<"\n">>, Tail(post_urns))

\* Only the delegated call is inside the try block; the loop is after it.
GetFeedPosts(i, n) ==
  /\ pc[i] = "body" /\ op[i] = "get_feed_posts"
  /\ \E out \in FeedOutcomes(n) :
       /\ Call(i, "get_feed_posts", [limit |-> args[i].limit, offset |-> args[i].offset], out)
       /\ IF ~out.ok THEN Except(i, "Error: ", out.err)
          ELSE LET f == FeedText(<<>>, out.val) IN
               /\ log' = log
               /\ IF f.ok THEN Return(i, f.text) ELSE Propagate(i, f.err)
  /\ Untouched

----------------------------------------------------------------------------
\* create_share_update, join_group, send_invitation, send_message

CreateShareUpdate(i) ==
  /\ pc[i] = "body" /\ op[i] = "create_share_update"
  /\ \E out \in StatusOutcomes :
       Guarded(i, "Error al crear el post: ", "post",
               [comment |-> args[i].comment, visibility |-> args[i].visibility_code], out,
               Fmt(<<"Post creado exitosamente: ">> \o Str(out.val)))
  /\ Untouched

JoinGroup(i) ==
  /\ pc[i] = "body" /\ op[i] = "join_group"
  /\ \E out \in StatusOutcomes :
       Guarded(i, "Error al unirse al grupo: ", "join_group", <<args[i].group_id>>, out,
               Fmt(<<"Unido al grupo exitosamente: ">> \o Str(out.val)))
  /\ Untouched

SendInvitation(i) ==
  /\ pc[i] = "body" /\ op[i] = "send_invitation"
  /\ \E out \in StatusOutcomes :
       Guarded(i, "Error al enviar invitación: ", "send_invitation",
               [public_id |-> args[i].public_id, message |-> args[i].message], out,
               Fmt(<<"Invitación enviada exitosamente: ">> \o Str(out.val)))
  /\ Untouched

SendMessage(i) ==
  /\ pc[i] = "body" /\ op[i] = "send_message"
  /\ \E out \in StatusOutcomes :
       Guarded(i, "Error al enviar mensaje: ", "send_message",
               [recipients |-> args[i].recipients, message |-> args[i].message], out,
               Fmt(<<"Mensaje enviado exitosamente: ">> \o Str(out.val)))
  /\ Untouched

----------------------------------------------------------------------------
\* get_profile

ProfileKeys == {"firstName", "lastName", "headline", "locationName", "industryName"}
Profiles == {[k \in ProfileKeys |-> CASE k = "firstName" -> "Ann" [] k = "lastName" -> "Lee"
                                      [] k = "headline" -> "Engineer" [] k = "locationName" -> "Lima"
                                      [] k = "industryName" -> "Software"],
             [k \in {"firstName"} |-> "Ann"],
             EmptyDict}
ProfileOutcomes == {Raises(EmptyDict, "ApiError")} \cup {Returns(p) : p \in Profiles}

\* if public_id: ... -- None and the empty string are both false
Truthy(public_id) == public_id # None /\ public_id[1] # ""

\* The positional arguments of client.get_profile
ProfileArgsIsNotNone(public_id) == IF public_id # None THEN <<public_id[1]>> ELSE <<>>
ProfileArgs(public_id) == IF Truthy(public_id) THEN <<public_id[1]>> ELSE <<>>

ProfileText(profile) ==
  <<"\n        Nombre: ">> \o Str(Get(profile, "firstName", "")) \o <<" ">>
    \o Str(Get(profile, "lastName", ""))
    \o <<"\n        Título: ">> \o Str(Get(profile, "headline", ""))
    \o <<"\n        Ubicación: ">> \o Str(Get(profile, "locationName", ""))
    \o <<"\n        Industria: ">> \o Str(Get(profile, "industryName", ""))
    \o <<"\n        ">>

GetProfile(i) ==
  /\ pc[i] = "body" /\ op[i] = "get_profile"
  /\ \E out \in ProfileOutcomes :
       Guarded(i, "Error al obtener el perfil: ", "get_profile", ProfileArgs(args[i].public_id),
               out, Fmt(ProfileText(out.val)))
  /\ Untouched

----------------------------------------------------------------------------
\* get_company

CompanyKeys == {"name", "industryName", "companyPageUrl", "staffCountRange", "description"}
StaffRange == [k \in {"start", "end"} |-> IF k = "start" THEN 11 ELSE 50]
CompanyValue(k, range) ==
  CASE k = "name" -> "Acme" [] k = "industryName" -> "Software"
    [] k = "companyPageUrl" -> "acme.example" [] k = "description" -> "Tools"
    [] k = "staffCountRange" -> range
Companies == {[k \in CompanyKeys |-> CompanyValue(k, StaffRange)],
              [k \in CompanyKeys |-> CompanyValue(k, [j \in {"start"} |-> 11])],
              [k \in CompanyKeys \ {"staffCountRange"} |-> CompanyValue(k, StaffRange)],
              [k \in {"name"} |-> "Acme"]}
CompanyOutcomes == {Raises([k \in {"name"} |-> "Acme"], "ApiError")} \cup {Returns(c) : c \in Companies}

\* company.get('staffCountRange', {}).get(bound, ''): a number when present
StaffBound(company, bound) ==
  LET range == Get(company, "staffCountRange", [k \in {} |-> 0]) IN
  IF bound \in DOMAIN range THEN IntStr(range[bound]) ELSE Str("")

CompanyText(company) ==
  <<"\n        Nombre: ">> \o Str(Get(company, "name", ""))
    \o <<"\n        Industria: ">> \o Str(Get(company, "industryName", ""))
    \o <<"\n        Sitio Web: ">> \o Str(Get(company, "companyPageUrl", ""))
    \o <<"\n        Tamaño: ">> \o StaffBound(company, "start") \o <<" - ">>
    \o StaffBound(company, "end") \o <<" empleados">>
    \o <<"\n        Descripción: ">> \o Str(Get(company, "description", ""))
    \o <<"\n        ">>

GetCompany(i) ==
  /\ pc[i] = "body" /\ op[i] = "get_company"
  /\ \E out \in CompanyOutcomes :
       Guarded(i, "Error al obtener información de la empresa: ", "get_company",
               <<args[i].company_id>>, out, Fmt(CompanyText(out.val)))
  /\ Untouched

----------------------------------------------------------------------------
\* get_connections

Connections == {[k \in {"firstName", "lastName", "headline"} |->
                   CASE k = "firstName" -> "Ann" [] k = "lastName" -> "Lee" [] k = "headline" -> "Engineer"],
                [k \in {"firstName"} |-> "Bob"]}
ConnectionOutcomes(n) == {Raises(<<>>, "ApiError")} \cup {Returns(l) : l \in Lists(Connections, n)}

ConnectionLine(connection) ==
  <<"- ">> \o Str(Get(connection, "firstName", "")) \o <<" ">> \o Str(Get(connection, "lastName", ""))
    \o <<": ">> \o Str(Get(connection, "headline", "")) \o <<"\n">>

\* result = "Conexiones:\n"; for connection in connections: result += ...
RECURSIVE ConnectionsText(_, _)
ConnectionsText(text, connections) ==
  IF connections = <<>> THEN text
  ELSE ConnectionsText(text \o ConnectionLine(Head(connections)), Tail(connections))

GetConnections(i, n) ==
  /\ pc[i] = "body" /\ op[i] = "get_connections"
  /\ \E out \in ConnectionOutcomes(n) :
       Guarded(i, "Error al obtener conexiones: ", "get_connections", [limit |-> args[i].limit],
               out, Fmt(ConnectionsText(<<"Conexiones:\n">>, out.val)))
  /\ Untouched

----------------------------------------------------------------------------
\* get_group_posts

GroupPosts == {[k \in {"author", "content"} |-> IF k = "author" THEN "Ann" ELSE "hello"],
               [k \in {"author"} |-> "Bob"]}
GroupPostOutcomes(n) == {Raises(<<>>, "ApiError")} \cup {Returns(l) : l \in Lists(GroupPosts, n)}

GroupPostLine(post) ==
  <<"- ">> \o Str(Get(post, "author", "")) \o <<": ">> \o Str(Get(post, "content", "")) \o <<"\n">>

\* result = f"Posts del grupo {group_id}:\n"; for post in posts: result += ...
RECURSIVE GroupPostsText(_, _)
GroupPostsText(text, posts) ==
  IF posts = <<>> THEN text
  ELSE GroupPostsText(text \o GroupPostLine(Head(posts)), Tail(posts))

GetGroupPosts(i, n) ==
  /\ pc[i] = "body" /\ op[i] = "get_group_posts"
  /\ \E out \in GroupPostOutcomes(n) :
       Guarded(i, "Error al obtener posts del grupo: ", "get_group_posts",
               [group_id |-> args[i].group_id, limit |-> args[i].limit], out,
               Fmt(GroupPostsText(<<"Posts del grupo ">> \o Str(args[i].group_id) \o <<":\n">>, out.val)))
  /\ Untouched

----------------------------------------------------------------------------
\* get_pending_invitations

Member == [k \in {"firstName", "lastName"} |-> IF k = "firstName" THEN "Ann" ELSE "Lee"]
Invitations == {[k \in {"fromMember"} |-> Member],
                [k \in {"fromMember"} |-> [j \in {"firstName"} |-> "Bob"]],
                [k \in {} |-> Member]}
InvitationOutcomes(n) == {Raises(<<>>, "ApiError")} \cup {Returns(l) : l \in Lists(Invitations, n)}

InvitationLine(inv) ==
  <<"- De: ">> \o Str(Get(Get(inv, "fromMember", EmptyDict), "firstName", "")) \o <<" ">>
    \o Str(Get(Get(inv, "fromMember", EmptyDict), "lastName", "")) \o <<"\n">>

\* result = "Invitaciones pendientes:\n"; for inv in invitations: result += ...
RECURSIVE InvitationsText(_, _)
InvitationsText(text, invitations) ==
  IF invitations = <<>> THEN text
  ELSE InvitationsText(text \o InvitationLine(Head(invitations)), Tail(invitations))

GetPendingInvitations(i, n) ==
  /\ pc[i] = "body" /\ op[i] = "get_pending_invitations"
  /\ \E out \in InvitationOutcomes(n) :
       Guarded(i, "Error al obtener invitaciones pendientes: ", "get_invitations",
               [limit |-> args[i].limit], out,
               Fmt(InvitationsText(<<"Invitaciones pendientes:\n">>, out.val)))
  /\ Untouched

----------------------------------------------------------------------------
\* get_conversations

Conversations == {[k \in {"participants"} |-> <<Member>>],
                  [k \in {"participants"} |-> <<[j \in {"firstName"} |-> "Bob"]>>],
                  [k \in {} |-> <<Member>>]}
ConversationOutcomes(n) == {Raises(<<>>, "ApiError")} \cup {Returns(l) : l \in Lists(Conversations, n)}

\* conv.get('participants', [])[0] raises IndexError on an empty list
\* result = "Conversaciones recientes:\n"; for conv in conversations: result += ...
RECURSIVE ConversationsText(_, _)
ConversationsText(text, conversations) ==
  IF conversations = <<>> THEN Fmt(text)
  ELSE LET participants == Get(Head(conversations), "participants", <<>>) IN
       IF Len(participants) = 0 THEN FmtRaises("list index out of range")
       ELSE ConversationsText(
              text \o <<"- Con: ">> \o Str(Get(participants[1], "firstName", "")) \o <<" ">>
                   \o Str(Get(participants[1], "lastName", "")) \o <<"\n">>,
              Tail(conversations))

GetConversations(i, n) ==
  /\ pc[i] = "body" /\ op[i] = "get_conversations"
  /\ \E out \in ConversationOutcomes(n) :
       Guarded(i, "Error al obtener conversaciones: ", "get_conversations",
               [limit |-> args[i].limit], out,
               ConversationsText(<<"Conversaciones recientes:\n">>, out.val))
  /\ Untouched

----------------------------------------------------------------------------
\* manage_company_page

\* The if/elif chain on action: the client method it selects, "" for the else
SelectMethodElseAnalytics(action) ==
  IF action = "update" THEN "update_company_page"
  ELSE IF action = "post" THEN "company_share"
  ELSE "get_company_analytics"
SelectMethod(action) ==
  IF action = "update" THEN "update_company_page"
  ELSE IF action = "post" THEN "company_share"
  ELSE IF action = "get_analytics" THEN "get_company_analytics"
  ELSE ""

\* The arguments of the selected call.  data.get on None raises AttributeError
\* before anything is called.
ManageArgs(method, company_id, data) ==
  CASE method = "update_company_page" -> Fmt(<<company_id, data>>)
    [] method = "company_share" ->
         IF data = None THEN FmtRaises("'NoneType' object has no attribute 'get'")
         ELSE Fmt(<<company_id, Get(data[1], "content", "")>>)
    [] method = "get_company_analytics" -> Fmt(<<company_id>>)

ManageCompanyPage(i) ==
  /\ pc[i] = "body" /\ op[i] = "manage_company_page"
  /\ LET method == SelectMethod(args[i].action) IN
     IF method = ""
     THEN /\ Return(i, <<"Acción no válida">>)
          /\ UNCHANGED <<log, calls>>
     ELSE LET a == ManageArgs(method, args[i].company_id, args[i].data) IN
          IF ~a.ok
          THEN /\ Except(i, "Error en la operación de página de empresa: ", a.err)
               /\ UNCHANGED calls
          ELSE \E out \in StatusOutcomes :
                 Guarded(i, "Error en la operación de página de empresa: ", method, a.text, out,
                         Fmt(<<"Operación completada exitosamente: ">> \o Str(out.val)))
  /\ Untouched

----------------------------------------------------------------------------
\* get_post_analytics

StatKeys == {"numLikes", "numComments", "numShares", "impressionCount", "engagementRate"}
Stats == {[k \in StatKeys |-> CASE k = "numLikes" -> 5 [] k = "numComments" -> 2 [] k = "numShares" -> 1
                                [] k = "impressionCount" -> 100 [] k = "engagementRate" -> "3%"],
          [k \in {"numLikes"} |-> 5],
          [k \in {} |-> 0]}
StatsOutcomes == {Raises([k \in {} |-> 0], "ApiError")} \cup {Returns(t) : t \in Stats}

\* stats.get(k, 0) inside an f-string, for the counters
Count(stats, k) == IntStr(Get(stats, k, 0))

StatsText(post_id, stats) ==
  <<"\n        Estadísticas del post ">> \o Str(post_id) \o <<":">>
    \o <<"\n        Likes: ">> \o Count(stats, "numLikes")
    \o <<"\n        Comentarios: ">> \o Count(stats, "numComments")
    \o <<"\n        Compartidos: ">> \o Count(stats, "numShares")
    \o <<"\n        Impresiones: ">> \o Count(stats, "impressionCount")
    \o <<"\n        Engagement: ">> \o Str(Get(stats, "engagementRate", "0%"))
    \o <<"\n        ">>

GetPostAnalytics(i) ==
  /\ pc[i] = "body" /\ op[i] = "get_post_analytics"
  /\ \E out \in StatsOutcomes :
       Guarded(i, "Error al obtener estadísticas del post: ", "get_post_stats",
               <<args[i].post_id>>, out, Fmt(StatsText(args[i].post_id, out.val)))
  /\ Untouched

----------------------------------------------------------------------------
\* search_jobs

\* Strings that are split are sequences of characters.
UrnJob == <<"u", "r", "n", ":", "l", "i", ":", "j", "o", "b", ":", "1", "2", "3", "4", "5">>
UrnBare == <<"7", "7", "7">>
JobSummaries == {[k \in {"entityUrn"} |-> UrnJob],
                 [k \in {"entityUrn"} |-> UrnBare],
                 [k \in {} |-> UrnBare]}
JobSearchOutcomes(n) == {Raises(<<>>, "ApiError")} \cup {Returns(l) : l \in Lists(JobSummaries, n)}

CompanyPath == "com.linkedin.voyager.deco.jobs.web.shared.WebCompactJobPostingCompany"
JobKeys == {"title", "companyDetails", "description", "formattedLocation"}
JobValue(k, title, name) ==
  CASE k = "title" -> title
    [] k = "companyDetails" ->
         [a \in {CompanyPath} |-> [b \in {"companyResolutionResult"} |-> [c \in {"name"} |-> name]]]
    [] k = "description" -> [a \in {"text"} |-> "Build pipelines"]
    [] k = "formattedLocation" -> "Jakarta"
JobDetails == {[k \in JobKeys |-> JobValue(k, "Data Engineer", "Acme")],
               [k \in JobKeys |-> JobValue(k, "Analyst", "Initech")],
               [k \in JobKeys \ {"description"} |-> JobValue(k, "Analyst", "Initech")]}
JobOutcomes == {Raises([k \in {"title"} |-> ""], "ApiError")} \cup {Returns(d) : d \in JobDetails}

\* The four subscript chains on job_data, in the order the code evaluates them,
\* and the block appended to job_results; a missing key raises KeyError.
JobBlock(job_data) ==
  IF "title" \notin DOMAIN job_data THEN FmtRaises("'title'")
  ELSE IF "companyDetails" \notin DOMAIN job_data THEN FmtRaises("'companyDetails'")
  ELSE IF CompanyPath \notin DOMAIN job_data["companyDetails"] THEN FmtRaises(CompanyPath)
  ELSE IF "companyResolutionResult" \notin DOMAIN job_data["companyDetails"][CompanyPath]
    THEN FmtRaises("'companyResolutionResult'")
  ELSE IF "name" \notin DOMAIN job_data["companyDetails"][CompanyPath]["companyResolutionResult"]
    THEN FmtRaises("'name'")
  ELSE IF "description" \notin DOMAIN job_data THEN FmtRaises("'description'")
  ELSE IF "text" \notin DOMAIN job_data["description"] THEN FmtRaises("'text'")
  ELSE IF "formattedLocation" \notin DOMAIN job_data THEN FmtRaises("'formattedLocation'")
  ELSE Fmt(<<"Job by ">> \o Str(job_data["title"]) \o <<" at ">>
             \o Str(job_data["companyDetails"][CompanyPath]["companyResolutionResult"]["name"])
             \o <<" in ">> \o Str(job_data["formattedLocation"]) \o <<": ">>
             \o Str(job_data["description"]["text"]) \o <<"\n\n">>)

\* search_jobs has no try block: whatever is raised inside it leaves it.
SearchJobsFailsGuarded(i, e) == Except(i, "Error: ", e)
SearchJobsFails(i, e) == log' = log /\ Propagate(i, e)

\* jobs = client.search_jobs(...); job_results = ""
SearchJobs(i, n) ==
  /\ pc[i] = "body" /\ op[i] = "search_jobs"
  /\ \E out \in JobSearchOutcomes(n) :
       /\ Call(i, "search_jobs",
               [keywords |-> args[i].keywords, location_name |-> args[i].location,
                limit |-> args[i].limit, offset |-> args[i].offset], out)
       /\ IF out.ok
          THEN /\ jobs' = [jobs EXCEPT ![i] = out.val]
               /\ idx' = [idx EXCEPT ![i] = 1]
               /\ acc' = [acc EXCEPT ![i] = <<>>]
               /\ pc' = [pc EXCEPT ![i] = "loop"]
               /\ UNCHANGED <<log, client, result, exc>>
          ELSE /\ SearchJobsFails(i, out.err)
               /\ UNCHANGED <<jobs, idx, acc>>
  /\ UNCHANGED <<env, heap, op, args, built>>

\* One iteration of: for job in jobs
SearchJobsJob(i) ==
  /\ pc[i] = "loop" /\ idx[i] <= Len(jobs[i])
  /\ LET job == jobs[i][idx[i]] IN
     IF "entityUrn" \notin DOMAIN job
     THEN /\ SearchJobsFails(i, "'entityUrn'")
          /\ UNCHANGED <<calls, idx, acc>>
     ELSE \E out \in JobOutcomes :
            /\ Call(i, "get_job", [job_id |-> JobId(job["entityUrn"])], out)
            /\ LET block == JobBlock(out.val) IN
               IF ~out.ok
               THEN SearchJobsFails(i, out.err) /\ UNCHANGED <<idx, acc>>
               ELSE IF ~block.ok
               THEN SearchJobsFails(i, block.err) /\ UNCHANGED <<idx, acc>>
               ELSE /\ acc' = [acc EXCEPT ![i] = @ \o block.text]
                    /\ idx' = [idx EXCEPT ![i] = @ + 1]
                    /\ UNCHANGED <<log, pc, client, result, exc>>
  /\ UNCHANGED <<env, heap, op, args, built, jobs>>

\* return job_results, once the loop is over
SearchJobsReturn(i) ==
  /\ pc[i] = "loop" /\ idx[i] > Len(jobs[i])
  /\ Return(i, acc[i])
  /\ UNCHANGED <<env, heap, log, op, args, built, calls, jobs, idx, acc>>

----------------------------------------------------------------------------
\* One caller at a time
Next ==
  \/ \E i \in Sequential : Invoke(i)
  \/ \E i \in Sequential : GetClient(i)
  \/ \E i \in Sequential : GetFeedPosts(i, MaxItems)
  \/ \E i \in Sequential : SearchJobs(i, MaxItems)
  \/ \E i \in Sequential : SearchJobsJob(i)
  \/ \E i \in Sequential : SearchJobsReturn(i)
  \/ \E i \in Sequential : CreateShareUpdate(i)
  \/ \E i \in Sequential : GetProfile(i)
  \/ \E i \in Sequential : GetCompany(i)
  \/ \E i \in Sequential : GetConnections(i, MaxItems)
  \/ \E i \in Sequential : JoinGroup(i)
  \/ \E i \in Sequential : GetGroupPosts(i, MaxItems)
  \/ \E i \in Sequential : SendInvitation(i)
  \/ \E i \in Sequential : GetPendingInvitations(i, MaxItems)
  \/ \E i \in Sequential : SendMessage(i)
  \/ \E i \in Sequential : GetConversations(i, MaxItems)
  \/ \E i \in Sequential : ManageCompanyPage(i)
  \/ \E i \in Sequential : GetPostAnalytics(i)

Spec == Init /\ [][Next]_vars

\* Callers running concurrently, interleaved at the client's blocking calls
NextConcurrent ==
  \/ \E i \in Concurrent : Invoke(i)
  \/ \E i \in Concurrent : GetClient(i)
  \/ \E i \in Concurrent : GetFeedPosts(i, MaxItemsConcurrent)
  \/ \E i \in Concurrent : SearchJobs(i, MaxItemsConcurrent)
  \/ \E i \in Concurrent : SearchJobsJob(i)
  \/ \E i \in Concurrent : SearchJobsReturn(i)
  \/ \E i \in Concurrent : CreateShareUpdate(i)
  \/ \E i \in Concurrent : GetProfile(i)
  \/ \E i \in Concurrent : GetCompany(i)
  \/ \E i \in Concurrent : GetConnections(i, MaxItemsConcurrent)
  \/ \E i \in Concurrent : JoinGroup(i)
  \/ \E i \in Concurrent : GetGroupPosts(i, MaxItemsConcurrent)
  \/ \E i \in Concurrent : SendInvitation(i)
  \/ \E i \in Concurrent : GetPendingInvitations(i, MaxItemsConcurrent)
  \/ \E i \in Concurrent : SendMessage(i)
  \/ \E i \in Concurrent : GetConversations(i, MaxItemsConcurrent)
  \/ \E i \in Concurrent : ManageCompanyPage(i)
  \/ \E i \in Concurrent : GetPostAnalytics(i)

SpecConcurrent == Init /\ [][NextConcurrent]_vars

----------------------------------------------------------------------------
\* Vocabulary of the properties

Terminal(i) == pc[i] \in {"done", "raised"}
BeginsWithError(text) == Len(text) > 0 /\ text[1] = "Error: "
LogsOf(i) == {k \in 1..Len(log) : log[k].inv = i}
RaisedCalls(i) == {k \in 1..Len(calls[i]) : ~calls[i][k].out.ok}

\* C1: in a guarded tool function, when the delegated client method raises,
\* the function returns "Error: " followed by the exception's description,
\* has logged that description exactly once, and lets no exception out.
C1_DelegatedFailureReturnsErrorText ==
  \A i \in Invocations :
    (op[i] \in GuardedOps /\ RaisedCalls(i) # {}) =>
      /\ pc[i] = "done"
      /\ exc[i] = ""
      /\ result[i] = <<"Error: ", Last(calls[i]).out.err>>
      /\ Cardinality(LogsOf(i)) = 1
      /\ \A k \in LogsOf(i) : Last(log[k].msg) = Last(calls[i]).out.err

C1_Witness ==
  \E i \in Invocations :
    /\ op[i] = "get_feed_posts" /\ pc[i] = "done"
    /\ RaisedCalls(i) = {1}
    /\ result[i] = <<"Error: ", "ApiError">>

\* C2: when the construction of the client fails, every guarded tool function
\* other than get_feed_posts returns a text beginning with "Error: ", and
\* only get_feed_posts and search_jobs let the failure out.
C2_ConstructionFailureReturnsErrorText ==
  \A i \in Invocations :
    (Terminal(i) /\ built[i] = 0) =>
      IF op[i] \in {"get_feed_posts", "search_jobs"}
      THEN pc[i] = "raised"
      ELSE pc[i] = "done" /\ BeginsWithError(result[i])

\* C3: manage_company_page with an action outside update, post and
\* get_analytics makes no delegated call, logs nothing, produces no "Error: "
\* text, and what it returns is exactly "Acción no válida"; it returns
\* whenever its client was constructed.
C3_InvalidActionIsRejected ==
  \A i \in Invocations :
    (op[i] = "manage_company_page" /\ args[i].action \notin ValidActions) =>
      /\ calls[i] = <<>>
      /\ LogsOf(i) = {}
      /\ ~BeginsWithError(result[i])
      /\ pc[i] = "done" => result[i] = <<"Acción no válida">>
      /\ (Terminal(i) /\ built[i] = 1) => pc[i] = "done"

C3_Witness ==
  \E i \in Invocations :
    /\ op[i] = "manage_company_page" /\ args[i].action = "bogus" /\ args[i].data = None
    /\ pc[i] = "done" /\ result[i] = <<"Acción no válida">>

\* The call the claim assigns to each valid action
ClaimedMethod(action) ==
  CASE action = "update" -> "update_company_page"
    [] action = "post" -> "company_share"
    [] action = "get_analytics" -> "get_company_analytics"

\* C4: manage_company_page with a valid action and any data, None included,
\* makes exactly one delegated call, the one the action selects, and returns
\* the success text with that call's result or "Error: " with its exception.
C4_ValidActionMakesOneCall ==
  \A i \in Invocations :
    (op[i] = "manage_company_page" /\ args[i].action \in ValidActions
       /\ Terminal(i) /\ built[i] = 1) =>
      /\ Len(calls[i]) = 1
      /\ calls[i][1].method = ClaimedMethod(args[i].action)
      /\ pc[i] = "done"
      /\ result[i] = IF calls[i][1].out.ok
                     THEN <<"Operación completada exitosamente: ", calls[i][1].out.val>>
                     ELSE <<"Error: ", calls[i][1].out.err>>

\* A job detail with every key search_jobs subscripts
HasJobFields(d) ==
  /\ JobKeys \subseteq DOMAIN d
  /\ CompanyPath \in DOMAIN d["companyDetails"]
  /\ "companyResolutionResult" \in DOMAIN d["companyDetails"][CompanyPath]
  /\ "name" \in DOMAIN d["companyDetails"][CompanyPath]["companyResolutionResult"]
  /\ "text" \in DOMAIN d["description"]

\* A failure inside search_jobs: a delegated call raised, a detail lacks a
\* subscripted key, or the summaries include one without entityUrn.
SearchFailed(i) ==
  \/ RaisedCalls(i) # {}
  \/ \E k \in 2..Len(calls[i]) : calls[i][k].out.ok /\ ~HasJobFields(calls[i][k].out.val)
  \/ /\ calls[i] # <<>> /\ calls[i][1].out.ok
     /\ \E k \in 1..Len(calls[i][1].out.val) : "entityUrn" \notin DOMAIN calls[i][1].out.val[k]

\* C5: search_jobs never returns a text beginning with "Error: "; once the
\* job search, a get_job call or a field extraction has failed, it ends by
\* raising: it returns nothing, the text accumulated so far included.
C5_SearchJobsPropagates ==
  \A i \in Invocations :
    op[i] = "search_jobs" =>
      /\ ~BeginsWithError(result[i])
      /\ LogsOf(i) = {}
      /\ (Terminal(i) /\ SearchFailed(i)) => (pc[i] = "raised" /\ result[i] = <<>>)

C5_Witness ==
  \E i \in Invocations :
    /\ op[i] = "search_jobs" /\ pc[i] = "raised"
    /\ Len(calls[i]) = 3 /\ RaisedCalls(i) = {3}
    /\ acc[i] # <<>>

FormattingOps == {"get_profile", "get_company", "get_connections", "get_group_posts",
                  "get_pending_invitations", "get_conversations", "get_post_analytics"}

\* C6: in the guarded tool functions that format fields of the response, a
\* response or list item lacking formatted keys (nested ones included) gives
\* the normal text with defaults: the function returns, and not with a text
\* beginning with "Error: ".
C6_MissingKeysDefault ==
  \A i \in Invocations :
    (op[i] \in FormattingOps /\ Terminal(i) /\ calls[i] # <<>> /\ calls[i][1].out.ok) =>
      pc[i] = "done" /\ ~BeginsWithError(result[i])

\* C7 as claimed: get_profile passes any string given as public_id to the
\* client's get_profile, passes nothing when none is given, and makes one call.
C7_AnyIdentifierIsPassed ==
  \A i \in Invocations :
    (op[i] = "get_profile" /\ Terminal(i) /\ built[i] = 1) =>
      /\ Len(calls[i]) = 1
      /\ calls[i][1].method = "get_profile"
      /\ calls[i][1].args = IF args[i].public_id = None THEN <<>> ELSE <<args[i].public_id[1]>>

\* C7 as amended: get_profile passes a non-empty public_id to the client's
\* get_profile, passes nothing when public_id is None or the empty string,
\* and makes exactly one delegated call.
C7_NonEmptyIdentifierIsPassed ==
  \A i \in Invocations :
    (op[i] = "get_profile" /\ Terminal(i) /\ built[i] = 1) =>
      /\ Len(calls[i]) = 1
      /\ calls[i][1].method = "get_profile"
      /\ calls[i][1].args = IF args[i].public_id \in {None, Some("")} THEN <<>>
                            ELSE <<args[i].public_id[1]>>

C7_Witness ==
  \E i \in Invocations :
    /\ op[i] = "get_profile" /\ args[i].public_id = Some("") /\ pc[i] = "done"
    /\ Len(calls[i]) = 1 /\ calls[i][1].args = <<>>

ListingOps == {"get_feed_posts", "search_jobs", "get_connections", "get_group_posts",
               "get_pending_invitations", "get_conversations"}

\* The header line of a listing; get_feed_posts and search_jobs have none
HeaderOf(i) ==
  CASE op[i] = "get_connections" -> <<"Conexiones:\n">>
    [] op[i] = "get_group_posts" -> <<"Posts del grupo ", args[i].group_id, ":\n">>
    [] op[i] = "get_pending_invitations" -> <<"Invitaciones pendientes:\n">>
    [] op[i] = "get_conversations" -> <<"Conversaciones recientes:\n">>
    [] OTHER -> <<>>

\* Number of item lines of a text: each ends with a line-break fragment
ItemLines(text) == Cardinality({k \in 1..Len(text) : text[k] \in {"\n", "\n\n"}})

\* The items carry the keys get_feed_posts and search_jobs subscript, and no
\* call of search_jobs failed: the cases where the unguarded code can format.
Subscriptable(i) ==
  /\ op[i] = "get_feed_posts" =>
       \A k \in 1..Len(calls[i][1].out.val) :
         {"author_name", "content"} \subseteq DOMAIN calls[i][1].out.val[k]
  /\ op[i] = "search_jobs" => ~SearchFailed(i)

\* C8: a listing tool function whose delegated call returned n items returns
\* its header followed by exactly n item lines; with no item, the header alone.
C8_ListingIsHeaderPlusItemLines ==
  \A i \in Invocations :
    (op[i] \in ListingOps /\ Terminal(i) /\ calls[i] # <<>> /\ calls[i][1].out.ok
       /\ Subscriptable(i)) =>
      LET header == HeaderOf(i) IN
      /\ pc[i] = "done"
      /\ Len(result[i]) >= Len(header)
      /\ SubSeq(result[i], 1, Len(header)) = header
      /\ ItemLines(SubSeq(result[i], Len(header) + 1, Len(result[i]))) = Len(calls[i][1].out.val)

\* The handles an invocation made its delegated calls on
HandlesOf(i) == {calls[i][k].h : k \in 1..Len(calls[i])}

\* What an invocation owns: its arguments, locals, calls and result
Frame(i) == <<pc[i], op[i], args[i], client[i], built[i], calls[i], jobs[i], idx[i], acc[i],
              result[i], exc[i]>>

Isolated ==
  \A i \in Invocations :
    /\ built[i] <= 1
    /\ pc[i] \in {"idle", "start"} => (built[i] = 0 /\ calls[i] = <<>>)
    /\ pc[i] \in {"body", "loop"} => (built[i] = 1 /\ client[i] # NoHandle)
    /\ calls[i] # <<>> => built[i] = 1
    /\ Cardinality(HandlesOf(i)) <= 1
    /\ NoHandle \notin HandlesOf(i)
    /\ pc[i] \in {"body", "loop"} => HandlesOf(i) \subseteq {client[i]}
    /\ Terminal(i) => client[i] = NoHandle
    /\ \A j \in Invocations \ {i} :
         /\ HandlesOf(i) \cap HandlesOf(j) = {}
         /\ client[i] # NoHandle => (client[i] # client[j] /\ client[i] \notin HandlesOf(j))

\* The log is only appended to, and a step changes one invocation's frame only
OneFrameSteps ==
  /\ Len(log') >= Len(log) /\ SubSeq(log', 1, Len(log)) = log
  /\ env' = env
  /\ \A i \in Invocations : \A j \in Invocations \ {i} :
       Frame(i)' # Frame(i) => Frame(j)' = Frame(j)

\* C9: every invocation constructs one client of its own before any delegated
\* call, makes all its calls on that client, holds no client once it has
\* ended, and shares no client with a concurrent invocation; a step of one
\* invocation leaves every other invocation's arguments, locals, calls and
\* result as they were.
C9_InvocationsAreIsolated == []Isolated /\ [][OneFrameSteps]_vars

C9_Witness ==
  \E i \in Invocations : \E j \in Invocations \ {i} :
    /\ pc[i] = "body" /\ client[i] # NoHandle
    /\ pc[j] = "done" /\ calls[j] # <<>>
    /\ client[i] \notin HandlesOf(j)

\* The substring of s after its last ":", all of s when it has none
AfterLastColon(s) ==
  LET colons == {k \in 1..Len(s) : s[k] = ":"} IN
  IF colons = {} THEN s
  ELSE SubSeq(s, (CHOOSE k \in colons : \A m \in colons : m <= k) + 1, Len(s))

\* The blocks of the details returned by calls k..Len(cs), concatenated in order
RECURSIVE BlocksFrom(_, _)
BlocksFrom(cs, k) ==
  IF k > Len(cs) THEN <<>> ELSE JobBlock(cs[k].out.val).text \o BlocksFrom(cs, k + 1)

\* C10: search_jobs calls search_jobs first, then get_job once per summary in
\* the order returned, with the part of entityUrn after its last colon as
\* job_id ("urn:li:job:12345" gives "12345", a string without colon gives
\* itself); when it returns it has made one get_job call per summary and the
\* result is the blocks of the details in that order.
C10_SearchJobsCallOrder ==
  \A i \in Invocations :
    (op[i] = "search_jobs" /\ calls[i] # <<>>) =>
      LET cs == calls[i]
          summaries == cs[1].out.val IN
      /\ cs[1].method = "search_jobs"
      /\ ~cs[1].out.ok => Len(cs) = 1
      /\ Len(cs) - 1 <= Len(summaries)
      /\ \A k \in 2..Len(cs) :
           /\ cs[k].method = "get_job"
           /\ cs[k].args.job_id = AfterLastColon(summaries[k - 1]["entityUrn"])
           /\ summaries[k - 1]["entityUrn"] = UrnJob => cs[k].args.job_id = <<"1", "2", "3", "4", "5">>
           /\ summaries[k - 1]["entityUrn"] = UrnBare => cs[k].args.job_id = UrnBare
      /\ pc[i] = "done" =>
           /\ Len(cs) = 1 + Len(summaries)
           /\ RaisedCalls(i) = {}
           /\ result[i] = BlocksFrom(cs, 2)

C10_Witness ==
  \E i \in Invocations :
    /\ op[i] = "search_jobs" /\ pc[i] = "done" /\ Len(calls[i]) = 3
    /\ calls[i][2].args.job_id = <<"1", "2", "3", "4", "5">>
    /\ calls[i][3].args.job_id = UrnBare
    /\ calls[i][2].out.val # calls[i][3].out.val

====
